---- MODULE Spec2Model ----
(***************************************************************************)
(* Model of ncluster/local_backend.py: one Task driving one tmux session.  *)
(* The caller process and the session (the shell inside the tmux window)   *)
(* are two processes that share nothing but the file system.  The caller   *)
(* sends one line per command, "<cmd> ; echo $? > <status_fn>", and polls  *)
(* for the status file.                                                    *)
(*                                                                         *)
(* Texts (commands, file contents of status files) are sequences of        *)
(* one-character strings.  In a command text "x" stands for an ordinary    *)
(* word and ">" for the redirection suffix " > N.stdout 2> N.stderr" that  *)
(* run_with_output appends.                                                *)
(***************************************************************************)
EXTENDS Integers, Sequences, FiniteSets, TLC

(* ------------------------------ bounds --------------------------------- *)
\* largest value the command counter may reach (guards of the calls)
MaxCounter == 4
\* stand-in for max_wait_sec, in units of check_interval
MaxWaitSec == 1
\* number of file_write temp files (distinct now_micros() values)
MaxMicros == 2
\* lines of an install script
MaxLines == 2
\* last value of the clock; a construction takes two units
MaxNow == 6
\* largest num_tasks of make_job
MaxNumTasks == 2

(* ------------------------- inputs of the calls ------------------------- *)
\* command texts handed to run / run_with_output
Cmds ==
  { <<" ">>, <<"#", "x">>, <<" ", "x", " ">>, <<"x", "&">>,
    <<"x", " ", "#", "&">>, <<"x", "\n", "x">> }
\* exit statuses a command can end with
ExitCodes == {0, 12}
\* relative file names handed to upload / file_write / file_read
Names == {"a", "b"}
\* file contents handed to file_write
Contents == {"", "hello"}
\* directories: the task's working directory (self.taskdir) and another
\* directory the calling process may be in
TaskDir == "taskdir"
OtherDir == "otherdir"
Dirs == {TaskDir, OtherDir}
\* a path is <<name>> (relative) or <<dir, name>> (absolute, starts with '/')
RelPaths == {<<nm>> : nm \in Names}
AbsPaths == {<<TaskDir, "a">>}
NoPath == <<>>

(* --------------------------- text helpers ------------------------------ *)
Whitespace == {" ", "\n", "\t"}
Digit == <<"0", "1", "2", "3", "4", "5", "6", "7", "8", "9">>
DigitSet == {Digit[i] : i \in 1..10}

RECURSIVE LStrip(_)
LStrip(s) ==
  IF s # <<>> /\ Head(s) \in Whitespace THEN LStrip(Tail(s)) ELSE s

RECURSIVE RStrip(_)
RStrip(s) ==
  IF s # <<>> /\ s[Len(s)] \in Whitespace
    THEN RStrip(SubSeq(s, 1, Len(s) - 1))
    ELSE s

\* str.strip()
Strip(s) == RStrip(LStrip(s))

\* str.startswith(c) for a one-character prefix
StartsWith(s, c) == s # <<>> /\ Head(s) = c

\* c in s
Contains(s, c) == \E i \in 1..Len(s) : s[i] = c

\* util.shell_strip_comment: everything before the first '#'
RECURSIVE shell_strip_comment(_)
shell_strip_comment(s) ==
  IF s = <<>> \/ Head(s) = "#"
    THEN <<>>
    ELSE <<Head(s)>> \o shell_strip_comment(Tail(s))

\* decimal digits of a natural number, as the shell's echo prints $?
RECURSIVE Decimal(_)
Decimal(n) ==
  IF n < 10 THEN <<Digit[n + 1]>>
  ELSE Decimal(n \div 10) \o <<Digit[(n % 10) + 1]>>

\* what "echo $? > file" leaves in the file
EchoText(n) == Decimal(n) \o <<"\n">>

\* int(text) succeeds
IsIntText(s) == s # <<>> /\ \A i \in 1..Len(s) : s[i] \in DigitSet

DigitValue(c) == CHOOSE d \in 0..9 : Digit[d + 1] = c

RECURSIVE IntOf(_)
IntOf(s) ==
  IF s = <<>> THEN 0
  ELSE 10 * IntOf(SubSeq(s, 1, Len(s) - 1)) + DigitValue(s[Len(s)])

(* --------------------------- path helpers ------------------------------ *)
\* path.startswith('/')
IsAbs(p) == Len(p) = 2

\* os.path.abspath(p) / how the OS resolves p for a process whose current
\* directory is d
Resolve(d, p) == IF IsAbs(p) THEN p ELSE <<d, p[1]>>

\* os.path.basename(p)
Basename(p) == <<p[Len(p)]>>

(* ------------------------------ state ---------------------------------- *)
VARIABLES
  run_counter,  \* self._run_counter
  cwd,          \* current directory of the calling process
  fs,           \* files of TaskDir and OtherDir: [exists, text]
  tmpFile,      \* scratch/file_write.<micros>: [exists, text]
  micros,       \* number of util.now_micros() values used for temp files
  cmdFile,      \* the set of n such that scratch/<n>.cmd exists
  statusFile,   \* scratch/<n>.status: [exists, text]
  outFile,      \* scratch/<n>.stdout and .stderr: [exists, by]
  queue,        \* lines typed into the tmux window, not yet read by the shell
  cur,          \* the instructions of the line the shell is executing
  sessOpen,     \* the head instruction of cur has begun (redirections opened)
  lastExit,     \* the shell's $?
  pc,           \* where the caller is: idle, wait, read, reread, output
  call,         \* the call in progress, or the last one completed
  prev,         \* the file_write completed just before it, if any
  elapsed,      \* time.time() - start_time of the wait in progress
  dispatched,   \* history: the commands sent to the session, in order
  exitOf,       \* history: exit status of command n, -1 until it has finished
  timedOut,     \* history: the n whose synchronous wait timed out
  install_script, \* Task.__init__: the lines of install_script.split('\n')
  line,         \* Task.__init__: how many of its commands were handed to run
  built,        \* Task.__init__: building, ok, or failed (an exception left it)
  now,          \* the clock that util.now_micros() reads
  sessions,     \* tmux: session name |-> the Task it was created for, or 0
  scratch,      \* SCRATCH_ROOT: directory name |-> the Task that created it
  tasks,        \* the Task objects returned so far, in order of creation
  jobs,         \* the backend.Job objects: [name, run, tasks]
  runs,         \* the backend.Run objects: [name, jobs]
  ret,          \* the last call of make_task or make_job and how it ended
  lastSend      \* history: the last send-keys: [by, owner]

buildVars == <<install_script, line, built>>
factoryVars == <<now, sessions, scratch, tasks, jobs, runs, ret, lastSend>>
taskVars ==
  <<run_counter, cwd, fs, tmpFile, micros, cmdFile, statusFile, outFile,
    queue, cur, sessOpen, lastExit, pc, call, prev, elapsed, dispatched,
    exitOf, timedOut>>
vars == <<taskVars, buildVars, factoryVars>>

fileVars == <<fs, tmpFile, cmdFile, statusFile, outFile>>
sessVars == <<queue, cur, sessOpen, lastExit>>
histVars == <<dispatched, exitOf, timedOut>>

Counters == 0..MaxCounter
NoFile == [exists |-> FALSE, text |-> ""]
NoStatus == [exists |-> FALSE, text |-> <<>>]
NoOut == [exists |-> FALSE, by |-> 0]

\* the frame of a call; res = "pending" while it runs
NoCall ==
  [op |-> "none", cmd |-> <<>>, async |-> FALSE, ignore |-> FALSE,
   c0 |-> 0, n |-> 0, sent |-> FALSE, out |-> 0,
   local |-> NoPath, path |-> NoPath, content |-> "", dont |-> FALSE,
   res |-> "pending", why |-> "", val |-> -1, text |-> "", outBy |-> 0]

\* what the next call remembers of the call before it
NoPrev == [op |-> "none", path |-> NoPath, content |-> "", res |-> "pending"]
Remember(fr) ==
  IF fr.op = "file_write"
    THEN [op |-> fr.op, path |-> fr.path, content |-> fr.content,
          res |-> fr.res]
    ELSE NoPrev

\* no Task, Job or Run has been made yet
NoRet == [op |-> "none", name |-> <<>>, n |-> 0, res |-> "pending", obj |-> 0]
NoSend == [by |-> 0, owner |-> 0]
NoFactory ==
  /\ now = 0
  /\ sessions = <<>>
  /\ scratch = <<>>
  /\ tasks = <<>>
  /\ jobs = <<>>
  /\ runs = <<>>
  /\ ret = NoRet
  /\ lastSend = NoSend

(* What Task.__init__ leaves behind with the default install_script '':    *)
(* run('cd <taskdir>') was command 1 and exited 0, and run('') raised the   *)
(* counter to 2 without dispatching anything.                               *)
Init ==
  /\ run_counter = 2
  /\ cwd \in Dirs
  /\ fs = [p \in Dirs \X Names |->
             IF p = <<OtherDir, "b">> THEN [exists |-> TRUE, text |-> "hello"]
             ELSE NoFile]
  /\ tmpFile = [k \in 1..MaxMicros |-> NoFile]
  /\ micros = 0
  /\ cmdFile = {1}
  /\ statusFile = [n \in Counters |->
                     IF n = 1 THEN [exists |-> TRUE, text |-> EchoText(0)]
                     ELSE NoStatus]
  /\ outFile = [n \in Counters |-> NoOut]
  /\ queue = <<>>
  /\ cur = <<>>
  /\ sessOpen = FALSE
  /\ lastExit = 0
  /\ pc = "idle"
  /\ call = NoCall
  /\ prev = NoPrev
  /\ elapsed = 0
  /\ dispatched = <<[n |-> 1, async |-> FALSE, out |-> 0]>>
  /\ exitOf = [n \in Counters |-> IF n = 1 THEN 0 ELSE -1]
  /\ timedOut = {}
  /\ install_script = << <<>> >>
  /\ line = 2
  /\ built = "ok"
  /\ NoFactory

(* ------------------- Task.run: what is sent to tmux -------------------- *)
\* the counter stops at 3, so that later commands share a status file
NextCounterStuck(c) == IF c < 3 THEN c + 1 ELSE c

\* the counter goes back after it has reached 3
NextCounterBack(c) == IF c < 3 THEN c + 1 ELSE c - 1

\* self._run_counter += 1
NextCounter(c) == c + 1

\* the instruction a command text stands for.  sem says what the command
\* does: "sh" (any command; its exit status is the session's choice) or
\* "cp" (cp -R src dst).  The redirection of run_with_output takes effect
\* only if its ">" is still in the text that is sent.
CmdInstr(text, sem, n) ==
  [type |-> sem.type, n |-> n,
   redirect |-> Contains(text, ">"), out |-> sem.out,
   src |-> sem.src, dst |-> sem.dst]

\* echo $? > <scratch>/<n>.status
EchoInstr(n) ==
  [type |-> "echo", n |-> n, redirect |-> TRUE, out |-> 0,
   src |-> [tmp |-> 0, path |-> NoPath], dst |-> NoPath]

\* the status is written before the command runs
ModifiedCmdEchoFirst(text, sem, n) == <<EchoInstr(n), CmdInstr(text, sem, n)>>

\* modified_cmd = '%s ; echo $? > %s' % (cmd, status_fn): the line typed
\* into the window, as the instructions the shell runs one after another
ModifiedCmd(text, sem, n) == <<CmdInstr(text, sem, n), EchoInstr(n)>>

ShSem == [type |-> "sh", out |-> 0, src |-> [tmp |-> 0, path |-> NoPath],
          dst |-> NoPath]
OutSem(k) == [ShSem EXCEPT !.out = k]
CpSem(src, dst) == [type |-> "cp", out |-> 0, src |-> src, dst |-> dst]

\* ignore_errors as the run inside the call sees it
InnerIgnore(fr) ==
  CASE fr.op = "run" -> fr.ignore
    [] fr.op = "run_with_output" -> TRUE
    [] OTHER -> FALSE

\* Task.run returns status to the operation that called it
RunReturns(fr, status) ==
  IF fr.op = "run_with_output"
    THEN /\ pc' = "output"
         /\ call' = [fr EXCEPT !.val = status]
    ELSE /\ pc' = "idle"
         /\ call' = [fr EXCEPT !.res = "return",
                               !.val = IF fr.op = "run" THEN status ELSE -1]

\* the call ends with an exception
Raises(fr, exc, why) ==
  /\ pc' = "idle"
  /\ call' = [fr EXCEPT !.res = exc, !.why = why]

\* the check for '&' is missing
NoBackgroundCheck(clean) == FALSE

\* assert '&' not in cmd fails
HasBackground(clean) == Contains(clean, "&")

\* the async flag is ignored
WaitsAlways(async) == TRUE

\* "if async: return -1" is not taken: the run goes on to wait
Waits(async) == ~async

\* Task.run, lines 67-88: everything up to the wait for the status file.
\* fr is the frame of the calling operation, cmd the text given to run.
Dispatch(fr, cmd, sem) ==
  LET n == NextCounter(run_counter)
      stripped == Strip(cmd)
      clean == shell_strip_comment(stripped)
      f == [fr EXCEPT !.n = n]
  IN
  /\ run_counter' = n
  /\ prev' = Remember(call)
  /\ elapsed' = 0
  /\ UNCHANGED <<cwd, fs, statusFile, outFile, cur, sessOpen, lastExit,
                 exitOf, timedOut, factoryVars>>
  /\ IF stripped = <<>> \/ StartsWith(stripped, "#")
       THEN /\ RunReturns(f, -1)
            /\ UNCHANGED <<cmdFile, queue, dispatched>>
     ELSE IF statusFile[n].exists
       THEN /\ Raises(f, "AssertionError", "status_fn exists")
            /\ UNCHANGED <<cmdFile, queue, dispatched>>
     ELSE IF HasBackground(clean)
       THEN /\ Raises(f, "AssertionError", "contains &")
            /\ UNCHANGED <<cmdFile, queue, dispatched>>
     ELSE /\ cmdFile' = cmdFile \cup {n}
          /\ queue' = Append(queue, ModifiedCmd(clean, sem, n))
          /\ dispatched' = Append(dispatched, [n |-> n, async |-> fr.async,
                                              out |-> sem.out])
          /\ IF Waits(fr.async)
               THEN /\ pc' = "wait"
                    /\ call' = [f EXCEPT !.sent = TRUE]
               ELSE RunReturns([f EXCEPT !.sent = TRUE], -1)

\* a call may start: the caller is idle and the counter has room
CanCall == pc = "idle" /\ run_counter < MaxCounter

\* Task.run(cmd, async, ignore_errors)
Run(cmd, async, ignore) ==
  /\ CanCall
  /\ UNCHANGED <<tmpFile, micros, buildVars>>
  /\ Dispatch([NoCall EXCEPT !.op = "run", !.cmd = cmd, !.async = async,
                             !.ignore = ignore, !.c0 = run_counter],
              cmd, ShSem)

\* a call that ends at once, touching nothing but its own frame
Immediate(fr) ==
  /\ pc' = "idle"
  /\ call' = fr
  /\ prev' = Remember(call)
  /\ UNCHANGED <<buildVars, factoryVars>>
  /\ UNCHANGED <<run_counter, cwd, fileVars, micros, sessVars, elapsed,
                 histVars>>

(* ---------------- Task._wait_for_file and the status read -------------- *)
\* time.time() - start_time > max_wait_sec
DeadlinePassed(e) == e > MaxWaitSec

\* the test of the polling loop is inverted
StatusExistsInverted(n) == ~statusFile[n].exists

\* self.file_exists(status_fn); status_fn is an absolute path
StatusExists(n) == statusFile[n].exists

\* one round of the loop of _wait_for_file
WaitPoll ==
  /\ pc = "wait"
  /\ UNCHANGED <<buildVars, factoryVars>>
  /\ UNCHANGED <<run_counter, cwd, fileVars, micros, sessVars, prev,
                 dispatched, exitOf>>
  /\ IF DeadlinePassed(elapsed)
       THEN /\ Raises(call, "AssertionError", "Timeout")
            /\ timedOut' = timedOut \cup {call.n}
            /\ elapsed' = elapsed
     ELSE IF ~StatusExists(call.n)
       THEN /\ elapsed' = elapsed + 1
            /\ UNCHANGED <<pc, call, timedOut>>
     ELSE /\ pc' = "read"
          /\ UNCHANGED <<call, elapsed, timedOut>>

\* contents = open(status_fn).read(); an empty read only makes the caller
\* sleep 0.01 s before it reads again
ReadStatus ==
  /\ pc = "read"
  /\ UNCHANGED <<buildVars, factoryVars>>
  /\ UNCHANGED <<run_counter, cwd, fileVars, micros, sessVars, prev, elapsed,
                 histVars>>
  /\ IF statusFile[call.n].exists
       THEN pc' = "reread" /\ call' = call
       ELSE Raises(call, "FileNotFoundError", "")

\* status = int(open(status_fn).read().strip()) and the rest of Task.run
RereadStatus ==
  /\ pc = "reread"
  /\ UNCHANGED <<buildVars, factoryVars>>
  /\ UNCHANGED <<run_counter, cwd, fileVars, micros, sessVars, prev, elapsed,
                 histVars>>
  /\ LET text == Strip(statusFile[call.n].text)
         status == IntOf(text)
     IN IF ~statusFile[call.n].exists
          THEN Raises(call, "FileNotFoundError", "")
        ELSE IF ~IsIntText(text)
          THEN Raises(call, "ValueError", "")
        ELSE IF status # 0 /\ ~InnerIgnore(call)
          THEN Raises([call EXCEPT !.val = status], "CommandFailure", "")
        ELSE RunReturns(call, status)

(* -------------------------- run_with_output ---------------------------- *)
\* Task.run_with_output(cmd, async, ignore_errors), up to the wait
\* one capture file for every call
StdoutIndexFixed(c) == 2

\* the <n> of stdout_fn and stderr_fn: scratch/<n>.stdout, scratch/<n>.stderr
StdoutIndex(c) == c

RunWithOutput(cmd, async, ignore) ==
  LET stripped == Strip(cmd)
      fr == [NoCall EXCEPT !.op = "run_with_output", !.cmd = cmd,
                           !.async = async, !.ignore = ignore,
                           !.c0 = run_counter, !.n = run_counter,
                           !.out = StdoutIndex(run_counter)]
  IN
  /\ CanCall
  /\ IF stripped = <<>> \/ StartsWith(stripped, "#")
       THEN Immediate([fr EXCEPT !.res = "return"])
     ELSE IF Contains(stripped, "\n")
       THEN Immediate([fr EXCEPT !.res = "AssertionError",
                                 !.why = "multi-line"])
     ELSE /\ UNCHANGED <<tmpFile, micros, buildVars>>
          /\ Dispatch(fr, stripped \o <<" ", ">">>, OutSem(fr.out))

\* stdout = self.file_read(stdout_fn) ... return stdout, stderr
ReadOutput ==
  /\ pc = "output"
  /\ UNCHANGED <<buildVars, factoryVars>>
  /\ UNCHANGED <<run_counter, cwd, fileVars, micros, sessVars, prev, elapsed,
                 histVars>>
  /\ LET captured == IF outFile[call.out].exists
                       THEN outFile[call.out].by ELSE 0
         fr == [call EXCEPT !.outBy = captured]
     IN IF call.val > 0 /\ ~call.ignore
          THEN Raises(fr, "CommandFailure", "")
          ELSE pc' = "idle" /\ call' = [fr EXCEPT !.res = "return"]

(* --------------------------- file transfer ----------------------------- *)
\* Task.file_exists(remote_fn) == os.path.exists(remote_fn)
FileExists(p) == fs[Resolve(cwd, p)].exists

\* Task.upload(local_fn, remote_fn, dont_overwrite); remote = NoPath is None
Upload(local, remote, dont) ==
  LET remote_fn == IF remote = NoPath THEN Basename(local) ELSE remote
      fr == [NoCall EXCEPT !.op = "upload", !.local = local,
                           !.path = remote_fn, !.dont = dont,
                           !.c0 = run_counter, !.n = run_counter]
  IN
  /\ CanCall
  /\ IF dont /\ FileExists(remote_fn)
       THEN Immediate([fr EXCEPT !.res = "return"])
     ELSE IF IsAbs(remote_fn)
       THEN Immediate([fr EXCEPT !.res = "AssertionError",
                                 !.why = "absolute path"])
     ELSE /\ UNCHANGED <<tmpFile, micros, buildVars>>
          /\ Dispatch(fr, <<"x">>,
                      CpSem([tmp |-> 0, path |-> Resolve(cwd, local)],
                            <<TaskDir, remote_fn[1]>>))

\* Task.download
\* the body that the source keeps commented out: cp source_fn target_fn
DownloadCopies(source_fn, target_fn) ==
  /\ pc = "idle"
  /\ pc' = "idle"
  /\ call' = [NoCall EXCEPT !.op = "download", !.local = source_fn,
                            !.path = target_fn, !.c0 = run_counter,
                            !.n = run_counter, !.res = "return"]
  /\ prev' = Remember(call)
  /\ fs' = IF FileExists(source_fn)
             THEN [fs EXCEPT ![Resolve(cwd, target_fn)] =
                                fs[Resolve(cwd, source_fn)]]
             ELSE fs
  /\ UNCHANGED <<run_counter, cwd, tmpFile, cmdFile, statusFile, outFile,
                 micros, sessVars, elapsed, histVars, buildVars, factoryVars>>

Download(source_fn, target_fn) ==
  /\ pc = "idle"
  /\ Immediate([NoCall EXCEPT !.op = "download", !.local = source_fn,
                              !.path = target_fn, !.c0 = run_counter,
                              !.n = run_counter,
                              !.res = "NotImplementedError"])

\* Task.file_read(remote_fn)
FileRead(p) ==
  /\ pc = "idle"
  /\ Immediate([NoCall EXCEPT !.op = "file_read", !.path = p,
                              !.c0 = run_counter, !.n = run_counter,
                              !.res = "return",
                              !.text = IF FileExists(p)
                                         THEN fs[Resolve(cwd, p)].text
                                         ELSE ""])

\* Task.file_write(remote_fn, contents): a temp file named from
\* now_micros(), then upload(tmp_fn, remote_fn)
FileWrite(p, c) ==
  LET k == micros + 1
      fr == [NoCall EXCEPT !.op = "file_write", !.path = p, !.content = c,
                           !.c0 = run_counter, !.n = run_counter]
  IN
  /\ CanCall
  /\ micros < MaxMicros
  /\ micros' = k
  /\ UNCHANGED buildVars
  /\ tmpFile' = [tmpFile EXCEPT ![k] = [exists |-> TRUE, text |-> c]]
  /\ IF IsAbs(p)
       THEN /\ Raises([fr EXCEPT !.why = "absolute path"], "AssertionError",
                      "absolute path")
            /\ prev' = Remember(call)
            /\ UNCHANGED <<run_counter, cwd, fs, cmdFile, statusFile, outFile,
                           sessVars, elapsed, histVars, factoryVars>>
       ELSE Dispatch(fr, <<"x">>,
                     CpSem([tmp |-> k, path |-> NoPath], <<TaskDir, p[1]>>))

(* ------------- the session: the shell in the tmux window --------------- *)
(* The shell reads one line at a time and runs its instructions one after  *)
(* another.  A redirection "> file" creates or truncates the file when the *)
(* instruction begins; what is written arrives when it ends.               *)
callerVars ==
  <<run_counter, cwd, micros, pc, call, prev, elapsed, buildVars, factoryVars>>

\* the shell reads the next line typed into the window
SessionReadLine ==
  /\ cur = <<>>
  /\ queue # <<>>
  /\ cur' = Head(queue)
  /\ queue' = Tail(queue)
  /\ UNCHANGED <<callerVars, fileVars, sessOpen, lastExit, histVars>>

\* the command of the line begins: "> N.stdout 2> N.stderr" is opened
SessionBeginCmd ==
  /\ cur # <<>>
  /\ Head(cur).type \in {"sh", "cp"}
  /\ ~sessOpen
  /\ sessOpen' = TRUE
  /\ outFile' = IF Head(cur).redirect
                  THEN [outFile EXCEPT ![Head(cur).out] =
                          [exists |-> TRUE, by |-> 0]]
                  ELSE outFile
  /\ UNCHANGED <<callerVars, fs, tmpFile, cmdFile, statusFile, queue, cur,
                 lastExit, histVars>>

\* the file cp -R reads
Source(src) == IF src.tmp > 0 THEN tmpFile[src.tmp] ELSE fs[src.path]

\* the command of the line ends with exit status e
SessionEndCmd(e) ==
  LET h == Head(cur) IN
  /\ cur # <<>>
  /\ h.type \in {"sh", "cp"}
  /\ sessOpen
  /\ h.type = "cp" => e = (IF Source(h.src).exists THEN 0 ELSE 1)
  /\ sessOpen' = FALSE
  /\ cur' = Tail(cur)
  /\ lastExit' = e
  /\ exitOf' = [exitOf EXCEPT ![h.n] = e]
  /\ fs' = IF h.type = "cp" /\ e = 0
             THEN [fs EXCEPT ![h.dst] = Source(h.src)]
             ELSE fs
  /\ outFile' = IF h.redirect
                  THEN [outFile EXCEPT ![h.out] = [exists |-> TRUE, by |-> h.n]]
                  ELSE outFile
  /\ UNCHANGED <<callerVars, tmpFile, cmdFile, statusFile, queue, dispatched,
                 timedOut>>

\* "echo $? > status_fn" begins: the status file is created, empty
SessionOpenStatus ==
  /\ cur # <<>>
  /\ Head(cur).type = "echo"
  /\ ~sessOpen
  /\ sessOpen' = TRUE
  /\ statusFile' = [statusFile EXCEPT ![Head(cur).n] =
                      [exists |-> TRUE, text |-> <<>>]]
  /\ UNCHANGED <<callerVars, fs, tmpFile, cmdFile, outFile, queue, cur,
                 lastExit, histVars>>

\* echo writes $? and a newline
SessionWriteStatus ==
  /\ cur # <<>>
  /\ Head(cur).type = "echo"
  /\ sessOpen
  /\ sessOpen' = FALSE
  /\ cur' = Tail(cur)
  /\ statusFile' = [statusFile EXCEPT ![Head(cur).n] =
                      [exists |-> TRUE, text |-> EchoText(lastExit)]]
  /\ lastExit' = 0
  /\ UNCHANGED <<callerVars, fs, tmpFile, cmdFile, outFile, queue, histVars>>

(* --------------------------- specifications ---------------------------- *)
\* the caller's part of a synchronous run
CallerSteps == WaitPoll \/ ReadStatus \/ RereadStatus

SessionSteps ==
  \/ SessionReadLine
  \/ SessionBeginCmd
  \/ \E e \in ExitCodes : SessionEndCmd(e)
  \/ SessionOpenStatus
  \/ SessionWriteStatus

\* a Task driven through run alone, with every command text
NextRun ==
  \/ \E cmd \in Cmds, a \in BOOLEAN, i \in BOOLEAN : Run(cmd, a, i)
  \/ CallerSteps
  \/ SessionSteps

SpecRun == Init /\ [][NextRun]_vars

\* the caller's thread keeps running: a wait in progress polls again.  The
\* session is given no fairness: a command may run for ever.
FairRun == SpecRun /\ WF_vars(WaitPoll)

\* a Task driven through the file operations
NextFiles ==
  \/ \E r \in {NoPath, <<"a">>} \cup AbsPaths, d \in BOOLEAN :
        Upload(<<"b">>, r, d)
  \/ \E p \in RelPaths \cup AbsPaths, c \in Contents : FileWrite(p, c)
  \/ \E p \in RelPaths \cup AbsPaths : FileRead(p)
  \/ \E s \in {<<"b">>, <<TaskDir, "a">>}, t \in RelPaths : Download(s, t)
  \/ CallerSteps
  \/ SessionSteps

SpecFiles == Init /\ [][NextFiles]_vars

\* run_with_output alone, with every input
NextOut ==
  \/ \E cmd \in Cmds, a \in BOOLEAN, i \in BOOLEAN : RunWithOutput(cmd, a, i)
  \/ CallerSteps
  \/ ReadOutput
  \/ SessionSteps

SpecOut == Init /\ [][NextOut]_vars

\* a Task driven through every operation that dispatches commands, with one
\* command text of each kind; ignore_errors, which no counter or file name
\* depends on, is left at one value per operation
MixCmds == {<<" ">>, <<" ", "x", " ">>, <<"x", "&">>}
Next ==
  \/ \E cmd \in MixCmds, a \in BOOLEAN : Run(cmd, a, FALSE)
  \/ \E cmd \in MixCmds, a \in BOOLEAN : RunWithOutput(cmd, a, TRUE)
  \/ \E r \in {NoPath, <<TaskDir, "a">>} : Upload(<<"b">>, r, FALSE)
  \/ \E p \in {<<"a">>, <<TaskDir, "a">>} : FileWrite(p, "hello")
  \/ CallerSteps
  \/ ReadOutput
  \/ SessionSteps

Spec == Init /\ [][Next]_vars

\* run_with_output between runs, uploads and no-ops; the last text of
\* OutCmds loses its redirections to the comment
OutCmds == {<<" ">>, <<" ", "x", " ">>, <<"x", " ", "#", "&">>}

NextCapture ==
  \/ \E cmd \in OutCmds, a \in BOOLEAN : RunWithOutput(cmd, a, TRUE)
  \/ \E cmd \in {<<" ">>, <<" ", "x", " ">>}, a \in BOOLEAN :
        Run(cmd, a, TRUE)
  \/ Upload(<<"b">>, NoPath, FALSE)
  \/ CallerSteps
  \/ ReadOutput
  \/ SessionSteps

SpecCapture == Init /\ [][NextCapture]_vars

(* --------------------------- Task.__init__ ----------------------------- *)
(* From the point where the directories exist and the counter is set to 0: *)
(* run('cd <taskdir>'), then run(line) for every line of the install       *)
(* script, each synchronous and with the default ignore_errors.            *)
Lines == {<<>>, <<"x">>, <<"#", "x">>, <<"x", "&">>}
Scripts == UNION {[1..k -> Lines] : k \in 1..MaxLines}

\* 'cd ' + self.taskdir
CdCmd == <<"x">>

\* the texts __init__ hands to run, in order
Program == <<CdCmd>> \o install_script

\* __init__ asks run to ignore errors
InitIgnoresErrors == TRUE

\* ignore_errors of the calls of __init__: the default of run
InitIgnoreErrors == FALSE

InitCtor ==
  /\ run_counter = 0
  /\ cwd \in Dirs
  /\ fs = [p \in Dirs \X Names |->
             IF p = <<OtherDir, "b">> THEN [exists |-> TRUE, text |-> "hello"]
             ELSE NoFile]
  /\ tmpFile = [k \in 1..MaxMicros |-> NoFile]
  /\ micros = 0
  /\ cmdFile = {}
  /\ statusFile = [n \in Counters |-> NoStatus]
  /\ outFile = [n \in Counters |-> NoOut]
  /\ queue = <<>>
  /\ cur = <<>>
  /\ sessOpen = FALSE
  /\ lastExit = 0
  /\ pc = "idle"
  /\ call = NoCall
  /\ prev = NoPrev
  /\ elapsed = 0
  /\ dispatched = <<>>
  /\ exitOf = [n \in Counters |-> -1]
  /\ timedOut = {}
  /\ install_script \in Scripts
  /\ line = 0
  /\ built = "building"
  /\ NoFactory

\* the next self.run(...) of __init__, reached when the one before returned
InitRun ==
  LET cmd == Program[line + 1] IN
  /\ built = "building" /\ pc = "idle"
  /\ line < Len(Program)
  /\ line = 0 \/ call.res = "return"
  /\ run_counter < MaxCounter
  /\ line' = line + 1
  /\ UNCHANGED <<tmpFile, micros, install_script, built>>
  /\ Dispatch([NoCall EXCEPT !.op = "run", !.cmd = cmd, !.async = FALSE,
                             !.ignore = InitIgnoreErrors,
                             !.c0 = run_counter],
              cmd, ShSem)

\* an exception of run leaves __init__
InitRaises ==
  /\ built = "building" /\ pc = "idle"
  /\ line > 0 /\ call.res # "return"
  /\ built' = "failed"
  /\ UNCHANGED <<taskVars, install_script, line, factoryVars>>

\* the loop is over: the Task is constructed
InitReturns ==
  /\ built = "building" /\ pc = "idle"
  /\ line = Len(Program) /\ call.res = "return"
  /\ built' = "ok"
  /\ UNCHANGED <<taskVars, install_script, line, factoryVars>>

NextCtor ==
  \/ InitRun
  \/ InitRaises
  \/ InitReturns
  \/ CallerSteps
  \/ SessionSteps

SpecCtor == InitCtor /\ [][NextCtor]_vars

(* ------------------------ make_task and make_job ----------------------- *)
(* The module-level functions, each taken as one step.  Every Task they    *)
(* make is constructed by Task.__init__; here a construction either        *)
(* succeeds or raises, and takes time.                                     *)
\* name=None
NoName == <<>>
TaskNames == {NoName, <<"a">>, <<"a", ".", "b">>, <<"a", "-", "b">>}
JobNames == {<<"j">>, <<"j", ".", "r">>, <<"j", ".", "r", ".", "s">>}

\* s.replace(a, b) for one-character a and b
Replace(s, a, b) == [i \in DOMAIN s |-> IF s[i] = a THEN b ELSE s[i]]
\* s.count(c)
Count(s, c) == Cardinality({i \in DOMAIN s : s[i] = c})

RECURSIVE Split(_, _)
\* s.split(c)
Split(s, c) ==
  IF ~Contains(s, c) THEN <<s>>
  ELSE LET i == CHOOSE k \in DOMAIN s :
                  s[k] = c /\ \A m \in 1..(k - 1) : s[m] # c
       IN <<SubSeq(s, 1, i - 1)>> \o Split(SubSeq(s, i + 1, Len(s)), c)

RECURSIVE Join(_, _)
\* c.join(parts)
Join(parts, c) ==
  IF Len(parts) = 1 THEN parts[1]
  ELSE parts[1] \o <<c>> \o Join(Tail(parts), c)

Reverse(parts) == [i \in DOMAIN parts |-> parts[Len(parts) + 1 - i]]

\* the components of a task name in reverse order: 0.job.run -> run.job.0
reverse_taskname(name) == Join(Reverse(Split(name, ".")), ".")

\* os.getpid(), the same for every Task of the process
OsGetpid == <<"7">>

\* the directory name without the timestamp
TmpDirNoMicros(name, t) == reverse_taskname(name) \o <<".">> \o OsGetpid

\* f"{util.reverse_taskname(name)}.{os.getpid()}.{util.now_micros()}"
TmpDir(name, t) ==
  reverse_taskname(name) \o <<".">> \o OsGetpid \o <<".">> \o Decimal(t)

TmuxWindow(name) == Replace(name, ".", "-") \o <<":", "0">>
TmuxSession(tmux_window) == SubSeq(tmux_window, 1, Len(tmux_window) - 2)

\* every task of a job gets the name of the job
JobTaskNameNoIndex(i, name) == name

\* f"{i}.{name}"
JobTaskName(i, name) == Decimal(i) \o <<".">> \o name

Put(f, k, v) == [x \in DOMAIN f \cup {k} |-> IF x = k THEN v ELSE f[x]]

Factory ==
  [now |-> now, sessions |-> sessions, scratch |-> scratch, tasks |-> tasks,
   jobs |-> jobs, runs |-> runs]

(* make_task on the state st.  The clock is read for the default name,     *)
(* again by __init__ after the session was killed and recreated, and has   *)
(* moved on when the construction ends.  A construction that raises leaves *)
(* the new session and the new directories behind, and no Task.            *)
MakeTaskOn(st, task_name, ok) ==
  LET name == IF task_name = NoName THEN Decimal(st.now) ELSE task_name
      tmux_window == TmuxWindow(name)
      tmux_session == TmuxSession(tmux_window)
      tmpdir == TmpDir(name, st.now + 1)
      id == Len(st.tasks) + 1
      j == Len(st.jobs) + 1
      r == Len(st.runs) + 1
  IN IF ok
       THEN [now |-> st.now + 2,
             sessions |-> Put(st.sessions, tmux_session, id),
             scratch |-> Put(st.scratch, tmpdir, id),
             tasks |-> Append(st.tasks,
                              [name |-> name, tmux_window |-> tmux_window,
                               tmpdir |-> tmpdir, job |-> j]),
             jobs |-> Append(st.jobs,
                             [name |-> NoName, run |-> r, tasks |-> <<id>>]),
             runs |-> Append(st.runs, [name |-> NoName, jobs |-> <<j>>])]
       ELSE [st EXCEPT !.now = st.now + 2,
                       !.sessions = Put(st.sessions, tmux_session, 0),
                       !.scratch = Put(st.scratch, tmpdir, 0)]

SetFactory(st) ==
  /\ now' = st.now
  /\ sessions' = st.sessions
  /\ scratch' = st.scratch
  /\ tasks' = st.tasks
  /\ jobs' = st.jobs
  /\ runs' = st.runs

MakeTask(name, ok) ==
  LET st == MakeTaskOn(Factory, name, ok) IN
  /\ now + 2 <= MaxNow
  /\ SetFactory(st)
  /\ ret' = [op |-> "make_task", name |-> name, n |-> 1,
             res |-> IF ok THEN "return" ELSE "raise",
             obj |-> IF ok THEN Len(st.tasks) ELSE 0]
  /\ UNCHANGED <<taskVars, buildVars, lastSend>>

RECURSIVE MakeTasks(_, _, _, _, _)
\* [make_task(f"{i}.{name}") for i in range(num_tasks)], from index i on;
\* the construction of task number failAt raises
MakeTasks(st, name, i, num_tasks, failAt) ==
  IF i = num_tasks THEN st
  ELSE IF failAt = i + 1 THEN MakeTaskOn(st, JobTaskName(i, name), FALSE)
  ELSE MakeTasks(MakeTaskOn(st, JobTaskName(i, name), TRUE),
                 name, i + 1, num_tasks, failAt)

MakeJob(name, num_tasks, failAt) ==
  LET fr == [op |-> "make_job", name |-> name, n |-> num_tasks,
             res |-> "return", obj |-> 0]
      st == MakeTasks(Factory, name, 0, num_tasks, failAt)
      first == Len(tasks)
      j == Len(st.jobs) + 1
      r == Len(st.runs) + 1
  IN
  /\ now + 2 * num_tasks <= MaxNow
  /\ UNCHANGED <<taskVars, buildVars, lastSend>>
  /\ IF ~(num_tasks > 0) \/ ~(Count(name, ".") <= 1)
       THEN /\ ret' = [fr EXCEPT !.res = "AssertionError"]
            /\ UNCHANGED <<now, sessions, scratch, tasks, jobs, runs>>
     ELSE IF failAt # 0
       THEN /\ ret' = [fr EXCEPT !.res = "raise"]
            /\ SetFactory(st)
     ELSE /\ ret' = [fr EXCEPT !.obj = j]
          /\ SetFactory(
               [st EXCEPT
                  !.jobs = Append(st.jobs,
                                  [name |-> name, run |-> r,
                                   tasks |-> [i \in 1..num_tasks |->
                                                first + i]]),
                  !.runs = Append(st.runs, [name |-> NoName, jobs |-> <<j>>])])

\* Task i sends a line: tmux send-keys -t <tmux_window of Task i>
SendKeys(i) ==
  /\ lastSend' = [by |-> i,
                  owner |-> sessions[TmuxSession(tasks[i].tmux_window)]]
  /\ UNCHANGED <<taskVars, buildVars, now, sessions, scratch, tasks, jobs,
                 runs, ret>>

\* time passes between two calls
Tick ==
  /\ now < MaxNow
  /\ now' = now + 1
  /\ UNCHANGED <<taskVars, buildVars, sessions, scratch, tasks, jobs, runs,
                 ret, lastSend>>

NextFactory ==
  \/ \E name \in TaskNames, ok \in BOOLEAN : MakeTask(name, ok)
  \/ \E name \in JobNames, n \in 0..MaxNumTasks, failAt \in 0..MaxNumTasks :
        failAt <= n /\ MakeJob(name, n, failAt)
  \/ \E i \in DOMAIN tasks : SendKeys(i)
  \/ Tick

SpecFactory == Init /\ [][NextFactory]_vars

TypeOK ==
  /\ run_counter \in 2..MaxCounter
  /\ pc \in {"idle", "wait", "read", "reread", "output"}
  /\ micros \in 0..MaxMicros
  /\ elapsed \in 0..(MaxWaitSec + 1)
  /\ Len(cur) <= 2

(* ------------------------------- claims -------------------------------- *)
\* a call has completed and its frame holds its outcome
Done == pc = "idle" /\ call.op # "none"

\* a run that was dispatched and waited for its status file has completed
SyncRunDone == Done /\ call.op = "run" /\ call.sent /\ ~call.async

\* the outcome carries an exit status: returned, or raised as a failure
HasStatus == call.res \in {"return", "CommandFailure"}

\* Task.run treats the text as empty or as a comment
IsNoOp(cmd) == Strip(cmd) = <<>> \/ StartsWith(Strip(cmd), "#")

\* C1: a synchronous run of a command that the session finishes with exit
\* status 0, and whose wait does not time out, returns 0 and raises nothing.
C1_ExitZeroReturnsZero ==
  (SyncRunDone /\ exitOf[call.n] = 0 /\ call.why # "Timeout")
    => (call.res = "return" /\ call.val = 0)

\* C2: the status file of command n exists only once the session has
\* finished executing command n, and a synchronous run that ends with an
\* exit status (returned or raised) ends only once its status file exists.
C2_StatusAfterCommand ==
  /\ \A n \in Counters : statusFile[n].exists => exitOf[n] # -1
  /\ (SyncRunDone /\ HasStatus) => statusFile[call.n].exists

C2_Witness ==
  /\ SyncRunDone /\ HasStatus /\ call.n > 1
  /\ statusFile[call.n].exists

\* C3: a synchronous run of a command that exits with status s # 0, and
\* whose wait does not time out, raises a command failure when ignore_errors
\* is false and returns exactly s without raising when it is true.
C3_NonZeroStatus ==
  (SyncRunDone /\ exitOf[call.n] > 0 /\ call.why # "Timeout")
    => /\ call.val = exitOf[call.n]
       /\ call.res = IF call.ignore THEN "return" ELSE "CommandFailure"

\* C4: over any sequence of run, run_with_output, upload and file_write
\* calls the command counter never decreases, the dispatched commands have
\* strictly increasing counters (so no two share a status file), and the
\* assertion that the status file is absent at dispatch never fails.
C4_CountersNeverReused ==
  /\ [][run_counter' >= run_counter]_vars
  /\ [](\A i, j \in DOMAIN dispatched :
          i < j => dispatched[i].n < dispatched[j].n)
  /\ [](call.why # "status_fn exists")

C4_Witness ==
  /\ Done /\ call.sent /\ HasStatus
  /\ Len(dispatched) = 3
  /\ timedOut # {}

\* C5: a run of an empty or comment-only command returns -1, sends nothing,
\* writes no file and leaves the command counter as it was at the call.
C5_NoOpLeavesCounter ==
  (Done /\ call.op = "run" /\ IsNoOp(call.cmd))
    => /\ call.res = "return" /\ call.val = -1
       /\ ~call.sent
       /\ call.n \notin cmdFile
       /\ run_counter = call.c0

\* the command text, after comment stripping, contains '&'
HasAmp(cmd) == ~IsNoOp(cmd) /\ Contains(shell_strip_comment(Strip(cmd)), "&")

\* C6: a run of a command containing '&' fails with an assertion error and
\* nothing of it reaches the session or the scratch directory: no line is
\* typed, no command file and no status file is created for it.
C6_BackgroundRejected ==
  (Done /\ call.op = "run" /\ HasAmp(call.cmd))
    => /\ call.res = "AssertionError"
       /\ ~call.sent
       /\ \A i \in DOMAIN dispatched : dispatched[i].n # call.n
       /\ \A i \in DOMAIN queue : \A k \in DOMAIN queue[i] :
            queue[i][k].n # call.n
       /\ \A k \in DOMAIN cur : cur[k].n # call.n
       /\ call.n \notin cmdFile
       /\ ~statusFile[call.n].exists

C6_Witness ==
  /\ Done /\ call.op = "run" /\ HasAmp(call.cmd)
  /\ call.why = "contains &"
  /\ cur # <<>>

\* C7: _wait_for_file terminates; it goes on to the read only when the path
\* exists, it fails with a timeout only after max_wait_sec has elapsed, and
\* it never polls again once the deadline has passed.
C7_WaitTerminates ==
  /\ [](pc = "read" => statusFile[call.n].exists)
  /\ []((Done /\ call.why = "Timeout") => elapsed > MaxWaitSec)
  /\ [](pc = "wait" => elapsed <= MaxWaitSec + 1)
  /\ (pc = "wait") ~> (pc # "wait")

C7_Witness ==
  /\ Done /\ call.why = "Timeout"
  /\ ~statusFile[call.n].exists
  /\ queue # <<>>

C9_AsyncThenSync ==
  /\ (pc # "idle" /\ call.op = "run") => ~call.async
  /\ (Done /\ call.op = "run" /\ call.sent /\ call.async)
       => (call.res = "return" /\ call.val = -1)
  /\ (SyncRunDone /\ HasStatus)
       => \A i \in DOMAIN dispatched :
            (dispatched[i].async /\ dispatched[i].n < call.n)
              => /\ exitOf[dispatched[i].n] # -1
                 /\ statusFile[dispatched[i].n].exists
                 /\ statusFile[dispatched[i].n].text # <<>>

C9_Witness ==
  /\ SyncRunDone /\ HasStatus
  /\ \E i \in DOMAIN dispatched :
       dispatched[i].async /\ dispatched[i].n < call.n

\* C10: file_write(p, c) that returned, followed by file_read(p) with the
\* same relative path p, reads back exactly c, whatever the current
\* directory of the caller is.
C10_WriteReadRoundTrip ==
  (/\ Done /\ call.op = "file_read"
   /\ prev.op = "file_write" /\ prev.res = "return"
   /\ prev.path = call.path /\ ~IsAbs(call.path))
    => call.text = prev.content

\* C11: an upload whose remote path is absolute fails with an assertion
\* error and dispatches nothing, whatever dont_overwrite is and whether or
\* not the path exists.
C11_AbsoluteRemoteRejected ==
  (Done /\ call.op = "upload" /\ IsAbs(call.path))
    => (call.res = "AssertionError" /\ ~call.sent)

\* C12: an upload with dont_overwrite set, called while the destination
\* <taskdir>/<remote path> exists, dispatches no command (so the destination
\* keeps its content).
C12_DontOverwriteSkips ==
  [][(/\ pc = "idle" /\ call' # call
      /\ call'.op = "upload" /\ call'.dont /\ ~IsAbs(call'.path)
      /\ fs[<<TaskDir, call'.path[1]>>].exists)
       => (~call'.sent /\ queue' = queue /\ run_counter' = run_counter)]_vars

\* C16: download ends with NotImplementedError for every pair of arguments,
\* and the step changes neither the command counter, nor any file, nor the
\* session.
C16_DownloadUnsupported ==
  [][(pc = "idle" /\ call'.op = "download" /\ call' # call)
       => (/\ call'.res = "NotImplementedError"
           /\ pc' = "idle"
           /\ UNCHANGED <<run_counter, fileVars, sessVars>>)]_vars

\* download has been called, after a file was uploaded to the task
\* directory, with a source that exists
C16_Witness ==
  /\ pc = "idle" /\ call.op = "download" /\ call.res = "NotImplementedError"
  /\ FileExists(call.local)
  /\ call.path = <<"b">>
  /\ fs[<<TaskDir, "a">>].exists

\* C17: a synchronous run that was dispatched and found its status file
\* never ends with the failure to parse an empty status file: the single
\* back-off and second read always yield the exit status.
C17_BackoffIsEnough ==
  (pc = "idle" /\ call.op = "run" /\ call.sent /\ ~call.async)
    => call.res # "ValueError"

\* a synchronous run_with_output was dispatched and has ended otherwise than
\* by the timeout of its wait
SyncOutputDone ==
  /\ pc = "idle" /\ call.op = "run_with_output"
  /\ call.sent /\ ~call.async /\ call.why # "Timeout"

\* C18: a synchronous run_with_output of a command that exits non-zero
\* raises the command failure exactly when ignore_errors is false, and
\* returns the captured output when ignore_errors is true.
C18_OutputFailure ==
  (SyncOutputDone /\ exitOf[call.n] > 0)
    => /\ (call.res = "CommandFailure") <=> ~call.ignore
       /\ call.ignore => call.res = "return"

Sendable(k) ==
  {i \in 1..k : ~IsNoOp(Program[i]) /\ ~HasAmp(Program[i])}

\* C14: __init__ hands the install lines to a synchronous run one at a time
\* and in order; a command is sent only after every command sent before it
\* has exited with 0, and a construction in which a command exited non-zero
\* does not succeed.
C14_InstallStopsAtFailure ==
  /\ \A i, j \in DOMAIN dispatched :
       i < j => exitOf[dispatched[i].n] = 0
  /\ built = "ok" => \A i \in DOMAIN dispatched : exitOf[dispatched[i].n] = 0
  /\ (built = "building" /\ line > 0)
       => /\ call.cmd = Program[line] /\ ~call.async
          /\ call.res = "AssertionError"
               \/ Len(dispatched) = Cardinality(Sendable(line))

\* the first of two install lines exited non-zero: the construction failed
\* and the second line was never handed to run
C14_Witness ==
  /\ built = "failed" /\ Len(install_script) = 2 /\ line = 2
  /\ call.res = "CommandFailure" /\ exitOf[call.n] = 12
  /\ ~IsNoOp(install_script[2]) /\ ~HasAmp(install_script[2])
  /\ Len(dispatched) = 2

C15_SessionsNotShared ==
  /\ \A i, k \in DOMAIN tasks :
       tasks[i].name # tasks[k].name
         => tasks[i].tmux_window # tasks[k].tmux_window
  /\ (lastSend.by # 0 /\ lastSend.owner # 0)
       => tasks[lastSend.owner].name = tasks[lastSend.by].name

\* C19: the Tasks made so far have pairwise different directory names
\* (working directory and scratch directory are both named by tmpdir), also
\* when their names are equal, and no later construction has wiped or
\* recreated the scratch directory of a Task.
C19_DirectoriesUnique ==
  /\ \A i, k \in DOMAIN tasks :
       i # k => tasks[i].tmpdir # tasks[k].tmpdir
  /\ \A i \in DOMAIN tasks : scratch[tasks[i].tmpdir] = i

\* two Tasks of the same name exist, and a construction under that name has
\* also failed
C19_Witness ==
  /\ \E i, k \in DOMAIN tasks : i # k /\ tasks[i].name = tasks[k].name
  /\ Cardinality(DOMAIN scratch) = 3
  /\ ret.op = "make_task" /\ ret.res = "raise" /\ ret.name = <<"a">>
  /\ \A i \in DOMAIN tasks : tasks[i].name = <<"a">>

====
